---------------------------- MODULE Spec2Model ----------------------------
(***************************************************************************)
(* A model of the SAT engine (src/sat.js, class SATSolver) and of the      *)
(* placement encoder / decoder built on it (src/unnamed/part_000, class    *)
(* UnifiedLayoutOptimizer).                                                 *)
(*                                                                         *)
(* The specifications share the variables of the module:                   *)
(*   Spec        the SATSolver API: newVar, addClause, solve;              *)
(*   LayoutSpec  one run of UnifiedLayoutOptimizer.optimize: encodeSAT,    *)
(*               solve, then extractSolution or fallbackLayout;            *)
(*   SearchSpec  newVar, addClause and one solve() call taken one dpll     *)
(*               step at a time; SearchFairSpec adds its fairness.         *)
(***************************************************************************)
EXTENDS Integers, Sequences, FiniteSets

\* ------------------------------------------------------------------------
\* Bounds of the SAT engine specification
\* ------------------------------------------------------------------------

\* The most variables newVar() allocates on one instance.
MaxVars == 3

\* The size of a formula: the literal occurrences of its clauses, an empty
\* clause counting for one.
MaxSize == 3

\* The most solve() calls on one instance.
MaxSolves == 2

\* ------------------------------------------------------------------------
\* JavaScript values
\* ------------------------------------------------------------------------

\* The three values a cell of the assignment array holds.
Undefined == "undefined"
True == "true"
False == "false"

\* !val on a defined boolean.
Not(val) == IF val = True THEN False ELSE True

\* Math.abs
Abs(lit) == IF lit < 0 THEN -lit ELSE lit

\* ------------------------------------------------------------------------
\* SATSolver
\* ------------------------------------------------------------------------

VARIABLES
    numVars,     \* SATSolver.numVars
    clauses,     \* SATSolver.clauses: a sequence of sequences of literals
    results      \* what the solve() calls made so far returned, in order

satVars == <<numVars, clauses, results>>

\* UnifiedLayoutOptimizer.optimize(data): its locals and the objects it
\* mutates.
VARIABLES
    pc,               \* where optimize() stands
    organizations,    \* data.organizations
    circles,          \* circleCandidates[0], the reference circle layout
    orgCandidates,    \* per organization, its candidate positions
    labelCandidates,  \* per circle, its candidate label positions
    encoding,         \* what encodeSAT returned: orgVars and labelVars
    layout,           \* what optimize() returned
    calls             \* how often each step of optimize() has run

layoutVars == <<pc, organizations, circles, orgCandidates, labelCandidates,
                encoding, layout, calls>>

\* One solve() call observed step by step: the array it allocates and the
\* dpll invocations on the call stack.
VARIABLES
    mode,             \* "idle": solve() not called; "call": the top
                      \* invocation has just been entered; "return": an
                      \* invocation has just returned ret to the one below
                      \* it; "done": solve() has returned
    assignmentArray,  \* the array solve() allocates, shared by all invocations
    stack,            \* the dpll invocations in progress, the innermost last
    ret,              \* what the invocation that returned last returned
    popped,           \* the invocation that returned last
    failed            \* the arrays on which an invocation entered and then
                      \* returned null

searchVars == <<mode, assignmentArray, stack, ret, popped, failed>>

vars == <<numVars, clauses, results, pc, organizations, circles,
          orgCandidates, labelCandidates, encoding, layout, calls,
          mode, assignmentArray, stack, ret, popped, failed>>

\* The value null, and a returned assignment array (indexed 0..numVars).
Null == [isNull |-> TRUE]
Returned(assignment) == [isNull |-> FALSE, assignment |-> assignment]

\* evalClause: the loop over the literals of the clause from position i on,
\* with the flag hasUndefined as it stands on reaching i.
RECURSIVE evalLits(_, _, _, _)
evalLits(clause, assignment, i, hasUndefined) ==
    IF i > Len(clause)
    THEN (IF hasUndefined THEN Undefined ELSE False)
    ELSE LET lit == clause[i]
             varIdx == Abs(lit)
             val == assignment[varIdx]
         IN IF val = Undefined
            THEN evalLits(clause, assignment, i + 1, TRUE)
            ELSE LET litVal == IF lit > 0 THEN val ELSE Not(val)
                 IN IF litVal = True
                    THEN True
                    ELSE evalLits(clause, assignment, i + 1, hasUndefined)

\* evalClause with the polarity of a literal dropped (litVal = val).
RECURSIVE evalLitsUnsigned(_, _, _, _)
evalLitsUnsigned(clause, assignment, i, hasUndefined) ==
    IF i > Len(clause)
    THEN (IF hasUndefined THEN Undefined ELSE False)
    ELSE LET val == assignment[Abs(clause[i])]
         IN IF val = Undefined
            THEN evalLitsUnsigned(clause, assignment, i + 1, TRUE)
            ELSE IF val = True
                 THEN True
                 ELSE evalLitsUnsigned(clause, assignment, i + 1, hasUndefined)

evalClauseUnsigned(clause, assignment) ==
    evalLitsUnsigned(clause, assignment, 1, FALSE)

evalClause(clause, assignment) == evalLits(clause, assignment, 1, FALSE)

\* The first loop of dpll, from clause i on with the flag allSatisfied as
\* it stands on reaching i: "conflict" for the early return null, else
\* whether all clauses are satisfied.
RECURSIVE checkClauses(_, _, _, _)
checkClauses(cls, assignment, i, allSatisfied) ==
    IF i > Len(cls)
    THEN (IF allSatisfied THEN "allSatisfied" ELSE "undecided")
    ELSE LET result == evalClause(cls[i], assignment)
         IN IF result = False
            THEN "conflict"
            ELSE checkClauses(cls, assignment, i + 1,
                              allSatisfied /\ result # Undefined)

\* The second loop of dpll run downwards: the highest unassigned index.
RECURSIVE chooseVarHighest(_, _, _)
chooseVarHighest(assignment, n, i) ==
    IF i > n THEN -1
    ELSE IF assignment[n + 1 - i] = Undefined THEN n + 1 - i
    ELSE chooseVarHighest(assignment, n, i + 1)

\* The second loop of dpll: the lowest unassigned index from i on, or -1.
RECURSIVE chooseVar(_, _, _)
chooseVar(assignment, n, i) ==
    IF i > n THEN -1
    ELSE IF assignment[i] = Undefined THEN i
    ELSE chooseVar(assignment, n, i + 1)

\* dpll without its second branch: a variable is tried true and never false.
RECURSIVE dpllTrueOnly(_, _, _)
dpllTrueOnly(cls, n, assignment) ==
    LET status == checkClauses(cls, assignment, 1, TRUE)
    IN IF status = "conflict"
       THEN [ret |-> Null, assignment |-> assignment]
       ELSE IF status = "allSatisfied"
       THEN [ret |-> Returned(assignment), assignment |-> assignment]
       ELSE LET nextVar == chooseVar(assignment, n, 1)
            IN IF nextVar = -1
               THEN [ret |-> Returned(assignment), assignment |-> assignment]
               ELSE LET resultTrue ==
                            dpllTrueOnly(cls, n,
                                         [assignment EXCEPT ![nextVar] = True])
                    IN IF ~resultTrue.ret.isNull
                       THEN resultTrue
                       ELSE [ret |-> Null,
                             assignment |->
                                 [resultTrue.assignment
                                    EXCEPT ![nextVar] = Undefined]]

\* dpll(assignment) on a solver with clauses cls and numVars n.  The array
\* is shared and mutated in place, so the value is the pair of what the
\* call returns (ret) and the array as the call leaves it (assignment).
RECURSIVE dpll(_, _, _)
dpll(cls, n, assignment) ==
    LET status == checkClauses(cls, assignment, 1, TRUE)
    IN IF status = "conflict"
       THEN [ret |-> Null, assignment |-> assignment]
       ELSE IF status = "allSatisfied"
       THEN [ret |-> Returned(assignment), assignment |-> assignment]
       ELSE LET nextVar == chooseVar(assignment, n, 1)
            IN IF nextVar = -1
               THEN [ret |-> Returned(assignment), assignment |-> assignment]
               ELSE LET resultTrue ==
                            dpll(cls, n, [assignment EXCEPT ![nextVar] = True])
                    IN IF ~resultTrue.ret.isNull
                       THEN resultTrue
                       ELSE LET resultFalse ==
                                    dpll(cls, n, [resultTrue.assignment
                                                    EXCEPT ![nextVar] = False])
                            IN IF ~resultFalse.ret.isNull
                               THEN resultFalse
                               ELSE [ret |-> Null,
                                     assignment |->
                                         [resultFalse.assignment
                                            EXCEPT ![nextVar] = Undefined]]

\* new Array(numVars + 1).fill(undefined)
freshAssignment(n) == [i \in 0..n |-> Undefined]

\* solve()
solve(cls, n) == dpll(cls, n, freshAssignment(n)).ret

\* The literals over the variables allocated so far.
Literals(n) == (-n..n) \ {0}

\* The sequences over S of length at most k.
SeqsUpTo(S, k) == UNION {[1..m -> S] : m \in 0..k}

\* The size of a formula.
RECURSIVE sizeOf(_)
sizeOf(cls) ==
    IF cls = <<>> THEN 0
    ELSE (IF Len(Head(cls)) = 0 THEN 1 ELSE Len(Head(cls))) + sizeOf(Tail(cls))

\* No call has been made yet.
NoCalls == [encodeSAT |-> 0, solve |-> 0, extractSolution |-> 0,
            fallbackLayout |-> 0]

\* No value has been returned yet.
NoLayout == [returned |-> FALSE]

\* A dpll invocation: the array as it was on entry, the variable it branches
\* on (-1 while none is chosen) and where it stands: "check" before its
\* first recursive call, "true" / "false" in its first / second one.
Frame(entry, nextVar, at) == [entry |-> entry, nextVar |-> nextVar, at |-> at]

\* No invocation has returned yet.
NoFrame == Frame(<<>>, -1, "none")

\* solve() has not been called.
SearchIdle ==
    /\ mode = "idle"
    /\ assignmentArray = <<>>
    /\ stack = <<>>
    /\ ret = Null
    /\ popped = NoFrame
    /\ failed = {}

\* constructor; no optimizer is running
SatInit ==
    /\ SearchIdle
    /\ numVars = 0
    /\ clauses = <<>>
    /\ results = <<>>
    /\ pc = "api"
    /\ organizations = <<>>
    /\ circles = <<>>
    /\ orgCandidates = <<>>
    /\ labelCandidates = <<>>
    /\ encoding = [orgVars |-> <<>>, labelVars |-> <<>>]
    /\ layout = NoLayout
    /\ calls = NoCalls

\* newVar()
NewVar ==
    /\ results = <<>>
    /\ numVars < MaxVars
    /\ numVars' = numVars + 1
    /\ UNCHANGED <<clauses, results>>
    /\ UNCHANGED layoutVars
    /\ UNCHANGED searchVars

\* addClause(literals), the literals over allocated variables
AddClause ==
    /\ results = <<>>
    /\ \E literals \in SeqsUpTo(Literals(numVars), MaxSize - sizeOf(clauses)) :
          /\ sizeOf(clauses) + (IF Len(literals) = 0 THEN 1 ELSE Len(literals))
                <= MaxSize
          /\ clauses' = Append(clauses, literals)
    /\ UNCHANGED <<numVars, results>>
    /\ UNCHANGED layoutVars
    /\ UNCHANGED searchVars

\* solve() iterating over the clauses destructively: the list is empty
\* once the call returns.
SolveConsuming ==
    /\ Len(results) < MaxSolves
    /\ results' = Append(results, solve(clauses, numVars))
    /\ clauses' = <<>>
    /\ UNCHANGED numVars
    /\ UNCHANGED layoutVars
    /\ UNCHANGED searchVars

\* solve(), its result kept by the caller
Solve ==
    /\ Len(results) < MaxSolves
    /\ results' = Append(results, solve(clauses, numVars))
    /\ UNCHANGED <<numVars, clauses>>
    /\ UNCHANGED layoutVars
    /\ UNCHANGED searchVars

SatNext == NewVar \/ AddClause \/ Solve

Spec == SatInit /\ [][SatNext]_vars

\* ------------------------------------------------------------------------
\* solve() step by step
\* ------------------------------------------------------------------------

\* The invocation in progress.
top == stack[Len(stack)]

\* The first loop of dpll on the array as it stands.
status == checkClauses(clauses, assignmentArray, 1, TRUE)

\* return value: the innermost invocation leaves the stack with the array
\* as it is left by it.
Return(value, array) ==
    /\ assignmentArray' = array
    /\ stack' = SubSeq(stack, 1, Len(stack) - 1)
    /\ ret' = value
    /\ popped' = top
    /\ failed' = IF value.isNull THEN failed \cup {top.entry} ELSE failed
    /\ mode' = "return"

\* assignment[nextVar] = value; this.dpll(assignment): the caller waits at
\* the position at, the callee is entered on the array just written.
Recurse(nextVar, value, at) ==
    LET array == [assignmentArray EXCEPT ![nextVar] = value]
    IN /\ assignmentArray' = array
       /\ stack' = Append([stack EXCEPT ![Len(stack)] =
                               Frame(top.entry, nextVar, at)],
                          Frame(array, -1, "check"))
       /\ mode' = "call"
       /\ UNCHANGED <<ret, popped, failed>>

\* newVar() before solve() is called
SearchNewVar ==
    /\ mode = "idle"
    /\ NewVar

\* addClause(literals) before solve() is called
SearchAddClause ==
    /\ mode = "idle"
    /\ AddClause

\* solve(): the array is allocated and dpll entered on it
SolveCall ==
    /\ mode = "idle"
    /\ assignmentArray' = freshAssignment(numVars)
    /\ stack' = <<Frame(assignmentArray', -1, "check")>>
    /\ mode' = "call"
    /\ UNCHANGED <<ret, popped, failed>>
    /\ UNCHANGED satVars
    /\ UNCHANGED layoutVars

\* if (result === false) return null
DpllConflict ==
    /\ mode = "call"
    /\ status = "conflict"
    /\ Return(Null, assignmentArray)
    /\ UNCHANGED satVars
    /\ UNCHANGED layoutVars

\* if (allSatisfied) return assignment; if (nextVar === -1) return assignment
DpllSatisfied ==
    /\ mode = "call"
    /\ \/ status = "allSatisfied"
       \/ status = "undecided" /\ chooseVar(assignmentArray, numVars, 1) = -1
    /\ Return(Returned(assignmentArray), assignmentArray)
    /\ UNCHANGED satVars
    /\ UNCHANGED layoutVars

\* The two branches in the other order: assignment[nextVar] = false first.
DpllTryFalseFirst ==
    /\ mode = "call"
    /\ status = "undecided"
    /\ chooseVar(assignmentArray, numVars, 1) # -1
    /\ Recurse(chooseVar(assignmentArray, numVars, 1), False, "true")
    /\ UNCHANGED satVars
    /\ UNCHANGED layoutVars

\* assignment[nextVar] = true; const resultTrue = this.dpll(assignment)
DpllTryTrue ==
    /\ mode = "call"
    /\ status = "undecided"
    /\ chooseVar(assignmentArray, numVars, 1) # -1
    /\ Recurse(chooseVar(assignmentArray, numVars, 1), True, "true")
    /\ UNCHANGED satVars
    /\ UNCHANGED layoutVars

\* if (resultTrue) return resultTrue
DpllReturnTrue ==
    /\ mode = "return"
    /\ stack # <<>>
    /\ top.at = "true"
    /\ ~ret.isNull
    /\ Return(ret, assignmentArray)
    /\ UNCHANGED satVars
    /\ UNCHANGED layoutVars

\* The first branch tried again once it has failed.
DpllRetryTrue ==
    /\ mode = "return"
    /\ stack # <<>>
    /\ top.at = "true"
    /\ ret.isNull
    /\ Recurse(top.nextVar, True, "true")
    /\ UNCHANGED satVars
    /\ UNCHANGED layoutVars

\* assignment[nextVar] = false; const resultFalse = this.dpll(assignment)
DpllTryFalse ==
    /\ mode = "return"
    /\ stack # <<>>
    /\ top.at = "true"
    /\ ret.isNull
    /\ Recurse(top.nextVar, False, "false")
    /\ UNCHANGED satVars
    /\ UNCHANGED layoutVars

\* if (resultFalse) return resultFalse
DpllReturnFalse ==
    /\ mode = "return"
    /\ stack # <<>>
    /\ top.at = "false"
    /\ ~ret.isNull
    /\ Return(ret, assignmentArray)
    /\ UNCHANGED satVars
    /\ UNCHANGED layoutVars

\* return null without assignment[nextVar] = undefined
DpllBacktrackLeaking ==
    /\ mode = "return"
    /\ stack # <<>>
    /\ top.at = "false"
    /\ ret.isNull
    /\ Return(Null, assignmentArray)
    /\ UNCHANGED satVars
    /\ UNCHANGED layoutVars

\* assignment[nextVar] = undefined; return null
DpllBacktrack ==
    /\ mode = "return"
    /\ stack # <<>>
    /\ top.at = "false"
    /\ ret.isNull
    /\ Return(Null, [assignmentArray EXCEPT ![top.nextVar] = Undefined])
    /\ UNCHANGED satVars
    /\ UNCHANGED layoutVars

\* return this.dpll(assignment): solve() hands the result to its caller
SolveReturn ==
    /\ mode = "return"
    /\ stack = <<>>
    /\ results' = Append(results, ret)
    /\ mode' = "done"
    /\ UNCHANGED <<numVars, clauses>>
    /\ UNCHANGED <<assignmentArray, stack, ret, popped, failed>>
    /\ UNCHANGED layoutVars

\* One step of a solve() call in progress.
SolveStep ==
    \/ DpllConflict
    \/ DpllSatisfied
    \/ DpllTryTrue
    \/ DpllReturnTrue
    \/ DpllTryFalse
    \/ DpllReturnFalse
    \/ DpllBacktrack
    \/ SolveReturn

SearchNext == SearchNewVar \/ SearchAddClause \/ SolveCall \/ SolveStep

SearchSpec == SatInit /\ [][SearchNext]_vars

\* solve() is synchronous: once called, it runs without interruption, so a
\* step of it that is possible is taken.
SearchFairSpec == SearchSpec /\ WF_vars(SolveStep)

\* ------------------------------------------------------------------------
\* Bounds of the layout specification
\* ------------------------------------------------------------------------

\* The most organizations in data.organizations.
MaxOrgs == 2

\* The most circles (categories) of the reference layout.
MaxCircles == 2

\* The most candidate positions of all entities together.
MaxCandidates == 5

\* ------------------------------------------------------------------------
\* Geometry
\* ------------------------------------------------------------------------

\* A property that holds a number, and one that is undefined.
Num(v) == <<v>>
NoValue == <<>>

\* The minimum separation of two organization dots (encodeSAT's argument).
OrgMinDist == 60

\* getTextBounds: the width of a character, the margin added to the width,
\* the height of the text (14 * 1.5) and the drop below the baseline.
CharWidth == 10
TextMargin == 20
TextHeight == 21
TextDrop == 8

\* labelsOverlap: the padding between two labels.
LabelPadding == 15

\* fallbackLayout: how far above its circle a label is put.
FallbackLabelGap == 30

\* positionsOverlap(pos1, pos2, minDist).  The coordinates are integers and
\* minDist is not negative, so sqrt(d) < minDist exactly when
\* d < minDist * minDist.
positionsOverlap(pos1, pos2, minDist) ==
    LET dx == pos1.x - pos2.x
        dy == pos1.y - pos2.y
    IN dx * dx + dy * dy < minDist * minDist

\* getTextBounds(text, x, y); textWidth is even, so its half is exact.
getTextBounds(text, x, y) ==
    LET textWidth == Len(text) * CharWidth + TextMargin
        textHeight == TextHeight
    IN [left |-> x - textWidth \div 2,
        right |-> x + textWidth \div 2,
        top |-> y - textHeight,
        bottom |-> y + TextDrop]

\* labelsOverlap(pos1, text1, pos2, text2)
labelsOverlap(pos1, text1, pos2, text2) ==
    LET bounds1 == getTextBounds(text1, pos1.x, pos1.y)
        bounds2 == getTextBounds(text2, pos2.x, pos2.y)
        padding == LabelPadding
    IN ~ \/ bounds1.right + padding < bounds2.left
         \/ bounds2.right + padding < bounds1.left
         \/ bounds1.bottom + padding < bounds2.top
         \/ bounds2.bottom + padding < bounds1.top

\* ------------------------------------------------------------------------
\* The inputs of a run
\* ------------------------------------------------------------------------

\* The circle layouts createCircleLayout may return, one per number of
\* categories: name, centre and radius of each circle.
CircleTable ==
    << [name |-> <<"F", "M">>, x |-> 0, y |-> 0, r |-> 120],
       [name |-> <<"A">>, x |-> 240, y |-> 0, r |-> 96],
       [name |-> <<"S", "A", "T">>, x |-> 120, y |-> 180, r |-> 144] >>

\* The positions an organization's candidates are drawn from: the first is
\* within OrgMinDist of the second and of the third, every other pair is
\* further apart.
OrgPoints ==
    { [x |-> 0, y |-> 0], [x |-> 30, y |-> 40], [x |-> 30, y |-> -40],
      [x |-> 200, y |-> 0] }

\* The positions a label's candidates are drawn from.  For the names "FM"
\* and "A": the first two overlap, the first and the third are apart
\* vertically only, the last two horizontally only.
LabelPoints ==
    { [x |-> 0, y |-> 0], [x |-> 40, y |-> 10], [x |-> -20, y |-> 50] }

\* The lists of distinct elements of S of length at most k.
DistinctSeqs(S, k) ==
    {s \in SeqsUpTo(S, k) : \A i, j \in DOMAIN s : i # j => s[i] # s[j]}

\* The sequences of k lists of distinct elements of S, each of minLen
\* elements at least, of at most budget elements together.
RECURSIVE CandidateLists(_, _, _, _)
CandidateLists(k, S, minLen, budget) ==
    IF k = 0 THEN {<<>>}
    ELSE UNION { { <<first>> \o rest :
                     rest \in CandidateLists(k - 1, S, minLen,
                                             budget - Len(first)) } :
                 first \in {s \in DistinctSeqs(S, budget) : Len(s) >= minLen} }

\* The sum of the lengths of the lists.
RECURSIVE countCandidates(_)
countCandidates(candidates) ==
    IF candidates = <<>> THEN 0
    ELSE Len(Head(candidates)) + countCandidates(Tail(candidates))

\* The names of the circles.
CircleNames(cs) == {cs[i].name : i \in DOMAIN cs}

Min(a, b) == IF a < b THEN a ELSE b

\* ------------------------------------------------------------------------
\* UnifiedLayoutOptimizer.encodeSAT
\* ------------------------------------------------------------------------

\* candidates.map(positions => positions.map(() => sat.newVar())), from
\* entity i on, when numVars stands at next: newVar() returns ++numVars.
RECURSIVE allocVars(_, _, _)
allocVars(candidates, i, next) ==
    IF i > Len(candidates) THEN <<>>
    ELSE <<[p \in 1..Len(candidates[i]) |-> next + p]>>
         \o allocVars(candidates, i + 1, next + Len(candidates[i]))

\* The two "at most one" loops over the selectors of one entity, p1 < p2,
\* with the inner loop starting at p1 + 2.
RECURSIVE atMostOneSkipping(_, _, _)
atMostOneSkipping(selectors, p1, p2) ==
    IF p1 > Len(selectors) THEN <<>>
    ELSE IF p2 > Len(selectors) THEN atMostOneSkipping(selectors, p1 + 1, p1 + 3)
    ELSE << <<-selectors[p1], -selectors[p2]>> >>
         \o atMostOneSkipping(selectors, p1, p2 + 1)

atMostOneFromNext(selectors) == atMostOneSkipping(selectors, 1, 3)

\* The two "at most one" loops over the selectors of one entity, p1 < p2.
RECURSIVE atMostOneLoop(_, _, _)
atMostOneLoop(selectors, p1, p2) ==
    IF p1 > Len(selectors) THEN <<>>
    ELSE IF p2 > Len(selectors) THEN atMostOneLoop(selectors, p1 + 1, p1 + 2)
    ELSE << <<-selectors[p1], -selectors[p2]>> >>
         \o atMostOneLoop(selectors, p1, p2 + 1)

atMostOne(selectors) == atMostOneLoop(selectors, 1, 2)

\* "Each org at exactly one position" / "each label at exactly one
\* position": the forEach over the entities, from entity i on.
RECURSIVE exactlyOne(_, _)
exactlyOne(selectorLists, i) ==
    IF i > Len(selectorLists) THEN <<>>
    ELSE IF Len(selectorLists[i]) = 0 THEN exactlyOne(selectorLists, i + 1)
    ELSE <<selectorLists[i]>> \o atMostOne(selectorLists[i])
         \o exactlyOne(selectorLists, i + 1)

\* "No org overlaps" with the loop over j starting at i instead of i + 1.
RECURSIVE orgOverlapLoopFromSelf(_, _, _, _, _, _)
orgOverlapLoopFromSelf(cands, orgVars, i, j, pi, pj) ==
    IF i > Len(cands) THEN <<>>
    ELSE IF j > Len(cands)
    THEN orgOverlapLoopFromSelf(cands, orgVars, i + 1, i + 1, 1, 1)
    ELSE IF pi > Len(cands[i])
    THEN orgOverlapLoopFromSelf(cands, orgVars, i, j + 1, 1, 1)
    ELSE IF pj > Len(cands[j])
    THEN orgOverlapLoopFromSelf(cands, orgVars, i, j, pi + 1, 1)
    ELSE (IF positionsOverlap(cands[i][pi], cands[j][pj], OrgMinDist)
          THEN << <<-orgVars[i][pi], -orgVars[j][pj]>> >>
          ELSE <<>>)
         \o orgOverlapLoopFromSelf(cands, orgVars, i, j, pi, pj + 1)

orgOverlapClausesFromSelf(cands, orgVars) ==
    orgOverlapLoopFromSelf(cands, orgVars, 1, 1, 1, 1)

\* "No org overlaps" with the loop over j starting at i + 2.
RECURSIVE orgOverlapLoopSkipping(_, _, _, _, _, _)
orgOverlapLoopSkipping(cands, orgVars, i, j, pi, pj) ==
    IF i > Len(cands) THEN <<>>
    ELSE IF j > Len(cands)
    THEN orgOverlapLoopSkipping(cands, orgVars, i + 1, i + 3, 1, 1)
    ELSE IF pi > Len(cands[i])
    THEN orgOverlapLoopSkipping(cands, orgVars, i, j + 1, 1, 1)
    ELSE IF pj > Len(cands[j])
    THEN orgOverlapLoopSkipping(cands, orgVars, i, j, pi + 1, 1)
    ELSE (IF positionsOverlap(cands[i][pi], cands[j][pj], OrgMinDist)
          THEN << <<-orgVars[i][pi], -orgVars[j][pj]>> >>
          ELSE <<>>)
         \o orgOverlapLoopSkipping(cands, orgVars, i, j, pi, pj + 1)

orgOverlapClausesSkipping(cands, orgVars) ==
    orgOverlapLoopSkipping(cands, orgVars, 1, 3, 1, 1)

\* "No org overlaps": the four loops, i < j over the organizations, pi and
\* pj over their candidates.
RECURSIVE orgOverlapLoop(_, _, _, _, _, _)
orgOverlapLoop(cands, orgVars, i, j, pi, pj) ==
    IF i > Len(cands) THEN <<>>
    ELSE IF j > Len(cands)
    THEN orgOverlapLoop(cands, orgVars, i + 1, i + 2, 1, 1)
    ELSE IF pi > Len(cands[i])
    THEN orgOverlapLoop(cands, orgVars, i, j + 1, 1, 1)
    ELSE IF pj > Len(cands[j])
    THEN orgOverlapLoop(cands, orgVars, i, j, pi + 1, 1)
    ELSE (IF positionsOverlap(cands[i][pi], cands[j][pj], OrgMinDist)
          THEN << <<-orgVars[i][pi], -orgVars[j][pj]>> >>
          ELSE <<>>)
         \o orgOverlapLoop(cands, orgVars, i, j, pi, pj + 1)

orgOverlapClauses(cands, orgVars) == orgOverlapLoop(cands, orgVars, 1, 2, 1, 1)

\* "No label overlaps (with each other)": the four loops, i < j over the
\* circles, pi and pj over their label candidates.
RECURSIVE labelOverlapLoop(_, _, _, _, _, _, _)
labelOverlapLoop(cs, cands, labelVars, i, j, pi, pj) ==
    IF i > Len(cs) THEN <<>>
    ELSE IF j > Len(cs)
    THEN labelOverlapLoop(cs, cands, labelVars, i + 1, i + 2, 1, 1)
    ELSE IF pi > Len(cands[i])
    THEN labelOverlapLoop(cs, cands, labelVars, i, j + 1, 1, 1)
    ELSE IF pj > Len(cands[j])
    THEN labelOverlapLoop(cs, cands, labelVars, i, j, pi + 1, 1)
    ELSE (IF labelsOverlap(cands[i][pi], cs[i].name, cands[j][pj], cs[j].name)
          THEN << <<-labelVars[i][pi], -labelVars[j][pj]>> >>
          ELSE <<>>)
         \o labelOverlapLoop(cs, cands, labelVars, i, j, pi, pj + 1)

labelOverlapClauses(cs, cands, labelVars) ==
    labelOverlapLoop(cs, cands, labelVars, 1, 2, 1, 1)

\* encodeSAT(sat, data, analysis, circleCandidates, orgCandidates,
\* labelCandidates) on a solver whose numVars is n and whose clauses are
\* cls: the solver as the call leaves it, and the encoding returned.  The
\* last loop of the method (labels against circles) adds nothing.
encodeSAT(n, cls, cs, orgCands, labelCands) ==
    LET orgVars == allocVars(orgCands, 1, n)
        labelVars == allocVars(labelCands, 1, n + countCandidates(orgCands))
    IN [numVars |-> n + countCandidates(orgCands) + countCandidates(labelCands),
        clauses |-> cls \o exactlyOne(orgVars, 1)
                        \o exactlyOne(labelVars, 1)
                        \o orgOverlapClauses(orgCands, orgVars)
                        \o labelOverlapClauses(cs, labelCands, labelVars),
        encoding |-> [orgVars |-> orgVars, labelVars |-> labelVars]]

\* ------------------------------------------------------------------------
\* UnifiedLayoutOptimizer.extractSolution and fallbackLayout
\* ------------------------------------------------------------------------

\* The same loop reading solution[pi], the candidate's index, where the
\* selector orgVars[i][pi] is meant.
RECURSIVE extractOrgByIndex(_, _, _, _, _)
extractOrgByIndex(org, solution, selectors, cands, pi) ==
    IF pi > Len(cands) THEN org
    ELSE IF solution[pi - 1] = True
    THEN [org EXCEPT !.x = Num(cands[pi].x), !.y = Num(cands[pi].y)]
    ELSE extractOrgByIndex(org, solution, selectors, cands, pi + 1)

\* The loop over the candidates of one organization, from pi on: the first
\* candidate whose selector is true gives the organization its position.
RECURSIVE extractOrg(_, _, _, _, _)
extractOrg(org, solution, selectors, cands, pi) ==
    IF pi > Len(cands) THEN org
    ELSE IF solution[selectors[pi]] = True
    THEN [org EXCEPT !.x = Num(cands[pi].x), !.y = Num(cands[pi].y)]
    ELSE extractOrg(org, solution, selectors, cands, pi + 1)

\* The loop over the label candidates of one circle, from pi on.
RECURSIVE extractLabel(_, _, _, _, _)
extractLabel(circle, solution, selectors, cands, pi) ==
    IF pi > Len(cands) THEN circle
    ELSE IF solution[selectors[pi]] = True
    THEN [circle EXCEPT !.labelX = Num(cands[pi].x),
                        !.labelY = Num(cands[pi].y)]
    ELSE extractLabel(circle, solution, selectors, cands, pi + 1)

\* circles.filter(c => org.categories.includes(c.name)), from circle i on
RECURSIVE relevantCircles(_, _, _)
relevantCircles(cs, org, i) ==
    IF i > Len(cs) THEN <<>>
    ELSE (IF cs[i].name \in org.categories THEN <<cs[i]>> ELSE <<>>)
         \o relevantCircles(cs, org, i + 1)

\* reduce((sum, c) => sum + c.x, 0) and the same for y
RECURSIVE sumX(_)
sumX(cs) == IF cs = <<>> THEN 0 ELSE Head(cs).x + sumX(Tail(cs))

RECURSIVE sumY(_)
sumY(cs) == IF cs = <<>> THEN 0 ELSE Head(cs).y + sumY(Tail(cs))

\* fallbackLayout's "simple org positioning" of one organization, placing
\* it only if it lies in two circles or more.
fallbackOrgShared(cs, org) ==
    LET relevant == relevantCircles(cs, org, 1)
    IN IF Len(relevant) > 1
       THEN [org EXCEPT !.x = Num(sumX(relevant) \div Len(relevant)),
                        !.y = Num(sumY(relevant) \div Len(relevant))]
       ELSE org

\* fallbackLayout's "simple org positioning" of one organization.  The
\* centres of CircleTable make every quotient exact.
fallbackOrg(cs, org) ==
    LET relevant == relevantCircles(cs, org, 1)
    IN IF Len(relevant) > 0
       THEN [org EXCEPT !.x = Num(sumX(relevant) \div Len(relevant)),
                        !.y = Num(sumY(relevant) \div Len(relevant))]
       ELSE org

\* fallbackLayout's "simple label positioning" of one circle
fallbackLabel(circle) ==
    [circle EXCEPT !.labelX = Num(circle.x),
                   !.labelY = Num(circle.y - circle.r - FallbackLabelGap)]

\* createCircleLayout(analysis, width / 2, height / 2): fallbackLayout calls
\* it with the arguments that made circleCandidates[0], so it returns new
\* circles of the same names, centres and radii, no label set.
createCircleLayout(cs) ==
    [i \in DOMAIN cs |-> [cs[i] EXCEPT !.labelX = NoValue, !.labelY = NoValue]]

\* ------------------------------------------------------------------------
\* UnifiedLayoutOptimizer.optimize
\* ------------------------------------------------------------------------

\* Step 1 of optimize() has run: the circles, the organizations and the
\* candidate lists are what the candidate generators returned; an
\* organization in no circle has no candidate (generateOrgCandidates), a
\* circle has one label candidate at least (generateLabelCandidates).
LayoutInit ==
    /\ SearchIdle
    /\ numVars = 0
    /\ clauses = <<>>
    /\ results = <<>>
    /\ pc = "encode"
    /\ encoding = [orgVars |-> <<>>, labelVars |-> <<>>]
    /\ layout = NoLayout
    /\ calls = NoCalls
    /\ \E n \in 1..Min(MaxCircles, Len(CircleTable)) :
          /\ circles = [i \in 1..n |->
                          [name |-> CircleTable[i].name, x |-> CircleTable[i].x,
                           y |-> CircleTable[i].y, r |-> CircleTable[i].r,
                           labelX |-> NoValue, labelY |-> NoValue]]
          /\ labelCandidates \in CandidateLists(n, LabelPoints, 1, MaxCandidates)
    /\ \E m \in 0..MaxOrgs :
          /\ orgCandidates \in
                CandidateLists(m, OrgPoints, 0,
                               MaxCandidates - countCandidates(labelCandidates))
          /\ \E categories \in [1..m -> SUBSET CircleNames(circles)] :
                /\ \A i \in 1..m : categories[i] = {} => orgCandidates[i] = <<>>
                /\ organizations =
                      [i \in 1..m |-> [categories |-> categories[i],
                                       x |-> NoValue, y |-> NoValue]]

\* Step 2: const sat = new SATSolver(); const encoding = this.encodeSAT(...)
EncodeSAT ==
    /\ pc = "encode"
    /\ LET encoded == encodeSAT(0, <<>>, circles, orgCandidates, labelCandidates)
       IN /\ numVars' = encoded.numVars
          /\ clauses' = encoded.clauses
          /\ encoding' = encoded.encoding
    /\ calls' = [calls EXCEPT !.encodeSAT = @ + 1]
    /\ pc' = "solve"
    /\ UNCHANGED <<results, organizations, circles, orgCandidates,
                   labelCandidates, layout>>
    /\ UNCHANGED searchVars

\* Step 3: const solution = sat.solve()
OptimizeSolve ==
    /\ pc = "solve"
    /\ results' = Append(results, solve(clauses, numVars))
    /\ calls' = [calls EXCEPT !.solve = @ + 1]
    /\ pc' = "route"
    /\ UNCHANGED <<numVars, clauses, organizations, circles, orgCandidates,
                   labelCandidates, encoding, layout>>
    /\ UNCHANGED searchVars

\* const solution
solution == results[Len(results)]

\* fallbackLayout entered whatever solve() returned.
FallbackLayoutUnguarded ==
    /\ pc = "route"
    /\ LET fresh == createCircleLayout(circles)
       IN /\ organizations' =
                [i \in DOMAIN organizations |->
                    fallbackOrg(fresh, organizations[i])]
          /\ layout' = [returned |-> TRUE,
                        circles |-> [i \in DOMAIN fresh |-> fallbackLabel(fresh[i])],
                        organizations |-> organizations']
    /\ calls' = [calls EXCEPT !.fallbackLayout = @ + 1]
    /\ pc' = "done"
    /\ UNCHANGED <<numVars, clauses, results, circles, orgCandidates,
                   labelCandidates, encoding>>
    /\ UNCHANGED searchVars

\* if (!solution) return this.fallbackLayout(data, analysis)
FallbackLayout ==
    /\ pc = "route"
    /\ solution.isNull
    /\ LET fresh == createCircleLayout(circles)
       IN /\ organizations' =
                [i \in DOMAIN organizations |->
                    fallbackOrg(fresh, organizations[i])]
          /\ layout' = [returned |-> TRUE,
                        circles |-> [i \in DOMAIN fresh |-> fallbackLabel(fresh[i])],
                        organizations |-> organizations']
    /\ calls' = [calls EXCEPT !.fallbackLayout = @ + 1]
    /\ pc' = "done"
    /\ UNCHANGED <<numVars, clauses, results, circles, orgCandidates,
                   labelCandidates, encoding>>
    /\ UNCHANGED searchVars

\* Step 4: return this.extractSolution(solution, encoding, ...)
ExtractSolution ==
    /\ pc = "route"
    /\ ~solution.isNull
    /\ organizations' =
          [i \in DOMAIN organizations |->
              extractOrg(organizations[i], solution.assignment,
                         encoding.orgVars[i], orgCandidates[i], 1)]
    /\ circles' =
          [i \in DOMAIN circles |->
              extractLabel(circles[i], solution.assignment,
                           encoding.labelVars[i], labelCandidates[i], 1)]
    /\ layout' = [returned |-> TRUE, circles |-> circles',
                  organizations |-> organizations']
    /\ calls' = [calls EXCEPT !.extractSolution = @ + 1]
    /\ pc' = "done"
    /\ UNCHANGED <<numVars, clauses, results, orgCandidates, labelCandidates,
                   encoding>>
    /\ UNCHANGED searchVars

LayoutNext == EncodeSAT \/ OptimizeSolve \/ FallbackLayout \/ ExtractSolution

LayoutSpec == LayoutInit /\ [][LayoutNext]_vars

\* ------------------------------------------------------------------------
\* Properties of the SAT engine
\* ------------------------------------------------------------------------

\* A literal evaluates to true under an assignment: a positive literal whose
\* variable is true, or a negative literal whose variable is false.
LitTrue(lit, assignment) ==
    \/ lit > 0 /\ assignment[lit] = True
    \/ lit < 0 /\ assignment[-lit] = False

\* Every clause has a literal that evaluates to true.
Satisfies(assignment, cls) ==
    \A c \in DOMAIN cls : \E j \in DOMAIN cls[c] : LitTrue(cls[c][j], assignment)

\* Some total true/false assignment of variables 1..n satisfies every clause.
HasModel(cls, n) ==
    \E m \in [1..n -> {True, False}] : Satisfies(m, cls)

\* C1 (soundness): whenever solve() returned a non-null assignment, every
\* clause of the formula has at least one literal that evaluates to true
\* under that assignment.
C1_Soundness ==
    \A k \in DOMAIN results :
        ~results[k].isNull => Satisfies(results[k].assignment, clauses)

\* A formula of two clauses or more was solved, and the assignment returned
\* sets a variable to false (the search backtracked on it).
C1_Witness ==
    /\ Len(clauses) >= 2
    /\ results # <<>>
    /\ ~results[1].isNull
    /\ \E v \in 1..numVars : results[1].assignment[v] = False

\* C2 (completeness): solve() returns null if and only if no total
\* true/false assignment of variables 1..numVars satisfies every clause.
C2_Completeness ==
    \A k \in DOMAIN results :
        results[k].isNull <=> ~HasModel(clauses, numVars)

\* Scenario B: the formula [[1],[-1]] was solved and the result is null.
C2_Witness ==
    /\ clauses = <<(<<1>>), (<<-1>>)>>
    /\ results # <<>>
    /\ results[1].isNull

\* C3 (totality), as the claim states it: in every non-null assignment
\* returned by solve(), every allocated variable is true or false.
C3_Total ==
    \A k \in DOMAIN results :
        ~results[k].isNull =>
            \A v \in 1..numVars : results[k].assignment[v] \in {True, False}

\* The clauses are satisfied by literals over variables below v alone.
SatisfiedBelow(assignment, cls, v) ==
    \A c \in DOMAIN cls :
        \E j \in DOMAIN cls[c] :
            Abs(cls[c][j]) < v /\ LitTrue(cls[c][j], assignment)

\* C3 (amended): in every non-null assignment returned by solve(), a
\* variable is left undefined only if every higher variable is undefined
\* too and the values of the lower variables alone satisfy every clause;
\* every other allocated variable is true or false.
C3_TotalUpToDontCares ==
    \A k \in DOMAIN results :
        ~results[k].isNull =>
            \A v \in 1..numVars :
                \/ results[k].assignment[v] \in {True, False}
                \/ /\ results[k].assignment[v] = Undefined
                   /\ \A w \in v..numVars :
                          results[k].assignment[w] = Undefined
                   /\ SatisfiedBelow(results[k].assignment, clauses, v)

\* A returned assignment that defines variable 1 and leaves the last
\* variable undefined.
C3_Witness ==
    /\ numVars >= 2
    /\ results # <<>>
    /\ ~results[1].isNull
    /\ results[1].assignment[1] \in {True, False}
    /\ results[1].assignment[numVars] = Undefined

Satisfiable == results # <<>> /\ ~solution.isNull

\* The value the returned assignment gives a selector.
Value(selector) == solution.assignment[selector]

\* The selectors of one entity: exactly one is true and the others are
\* false.
ExactlyOneTrue(selectors) ==
    \E p \in DOMAIN selectors :
        /\ Value(selectors[p]) = True
        /\ \A q \in DOMAIN selectors : q # p => Value(selectors[q]) = False

\* C4 (exactly-one): in every non-null assignment returned by solve() on
\* the encoded formula, every organization and every circle label with one
\* candidate or more has exactly one selector true and its others false.
C4_ExactlyOne ==
    Satisfiable =>
        /\ \A i \in DOMAIN orgCandidates :
              Len(orgCandidates[i]) >= 1 => ExactlyOneTrue(encoding.orgVars[i])
        /\ \A i \in DOMAIN labelCandidates :
              Len(labelCandidates[i]) >= 1 =>
                  ExactlyOneTrue(encoding.labelVars[i])

\* An assignment was returned in which an organization of two candidates
\* has its second selected and a label of two candidates its first.
C4_Witness ==
    /\ Satisfiable
    /\ \E i \in DOMAIN orgCandidates :
          /\ Len(orgCandidates[i]) = 2
          /\ Value(encoding.orgVars[i][2]) = True
    /\ \E i \in DOMAIN labelCandidates :
          /\ Len(labelCandidates[i]) = 2
          /\ Value(encoding.labelVars[i][1]) = True

\* C5 (mutual exclusion): no non-null assignment returned by solve() on the
\* encoded formula makes true the selectors of two candidates of distinct
\* organizations that positionsOverlap reports, or of two label candidates
\* of distinct circles that labelsOverlap reports.
C5_MutualExclusion ==
    Satisfiable =>
        /\ \A i, j \in DOMAIN orgCandidates :
              i < j =>
                \A pi \in DOMAIN orgCandidates[i], pj \in DOMAIN orgCandidates[j] :
                    positionsOverlap(orgCandidates[i][pi], orgCandidates[j][pj],
                                     OrgMinDist)
                    => ~ /\ Value(encoding.orgVars[i][pi]) = True
                         /\ Value(encoding.orgVars[j][pj]) = True
        /\ \A i, j \in DOMAIN labelCandidates :
              i < j =>
                \A pi \in DOMAIN labelCandidates[i],
                   pj \in DOMAIN labelCandidates[j] :
                    labelsOverlap(labelCandidates[i][pi], circles[i].name,
                                  labelCandidates[j][pj], circles[j].name)
                    => ~ /\ Value(encoding.labelVars[i][pi]) = True
                         /\ Value(encoding.labelVars[j][pj]) = True

\* An assignment was returned that selects a candidate of one organization
\* which overlaps a candidate of another, for a layout of two circles.
C5_Witness ==
    /\ Satisfiable
    /\ Len(labelCandidates) = 2
    /\ \E i, j \in DOMAIN orgCandidates :
          /\ i # j
          /\ \E pi \in DOMAIN orgCandidates[i], pj \in DOMAIN orgCandidates[j] :
                /\ positionsOverlap(orgCandidates[i][pi], orgCandidates[j][pj],
                                    OrgMinDist)
                /\ Value(encoding.orgVars[i][pi]) = True

\* The choices of one candidate per entity with a non-empty candidate list
\* (0 for an entity that has none).
Choices(candidates) ==
    {f \in [DOMAIN candidates -> 0..MaxCandidates] :
        \A i \in DOMAIN candidates :
            IF Len(candidates[i]) = 0 THEN f[i] = 0
            ELSE f[i] \in 1..Len(candidates[i])}

\* A choice of organization candidates avoids every flagged conflict.
OrgChoiceClear(f) ==
    \A i, j \in DOMAIN orgCandidates :
        (i < j /\ f[i] # 0 /\ f[j] # 0) =>
            ~positionsOverlap(orgCandidates[i][f[i]], orgCandidates[j][f[j]],
                              OrgMinDist)

\* A choice of label candidates avoids every flagged conflict.
LabelChoiceClear(g) ==
    \A i, j \in DOMAIN labelCandidates :
        (i < j /\ g[i] # 0 /\ g[j] # 0) =>
            ~labelsOverlap(labelCandidates[i][g[i]], circles[i].name,
                           labelCandidates[j][g[j]], circles[j].name)

\* Some choice of one candidate per entity avoids every flagged conflict.
ClearChoiceExists ==
    \E f \in Choices(orgCandidates), g \in Choices(labelCandidates) :
        OrgChoiceClear(f) /\ LabelChoiceClear(g)

\* The returned assignment selects exactly the candidates of the choice.
Selects(f, g) ==
    /\ \A i \in DOMAIN orgCandidates :
          \A p \in DOMAIN orgCandidates[i] :
              Value(encoding.orgVars[i][p]) = True <=> p = f[i]
    /\ \A i \in DOMAIN labelCandidates :
          \A p \in DOMAIN labelCandidates[i] :
              Value(encoding.labelVars[i][p]) = True <=> p = g[i]

\* C6 (encoder-level completeness): optimize() takes the Unsatisfiable path
\* only if no choice of one candidate per entity with a non-empty candidate
\* list avoids every flagged conflict; when such a choice exists, solve()
\* returns an assignment that selects one.
C6_EncoderComplete ==
    /\ calls.fallbackLayout > 0 => ~ClearChoiceExists
    /\ (results # <<>> /\ ClearChoiceExists) =>
          /\ ~solution.isNull
          /\ \E f \in Choices(orgCandidates), g \in Choices(labelCandidates) :
                OrgChoiceClear(f) /\ LabelChoiceClear(g) /\ Selects(f, g)

\* Scenario D: A has the candidates (0,0) and (200,0), B the candidates
\* (30,40) and (30,-40); A's first conflicts with both of B's, A's second
\* with none, and the run gave A its second candidate.
C6_Witness ==
    /\ pc = "done"
    /\ orgCandidates = << <<[x |-> 0, y |-> 0], [x |-> 200, y |-> 0]>>,
                          <<[x |-> 30, y |-> 40], [x |-> 30, y |-> -40]>> >>
    /\ calls.extractSolution = 1
    /\ organizations[1].x = Num(200)
    /\ organizations[1].y = Num(0)

\* C8 (outcome routing): solve() is called once, on the formula encodeSAT
\* built, and then exactly one continuation runs: extractSolution if and
\* only if solve() returned an assignment, fallbackLayout if and only if it
\* returned null.
C8_Routing ==
    /\ calls.encodeSAT <= 1 /\ calls.solve <= 1
    /\ calls.extractSolution + calls.fallbackLayout <= 1
    /\ calls.solve = 1 =>
          /\ calls.encodeSAT = 1
          /\ clauses = encodeSAT(0, <<>>, circles, orgCandidates,
                                 labelCandidates).clauses
    /\ calls.extractSolution = 1 => calls.solve = 1 /\ ~solution.isNull
    /\ calls.fallbackLayout = 1 => calls.solve = 1 /\ solution.isNull
    /\ pc = "done" =>
          /\ calls.solve = 1
          /\ calls.extractSolution + calls.fallbackLayout = 1
          /\ layout.returned

\* A run that ended through fallbackLayout.
C8_Witness ==
    /\ pc = "done"
    /\ calls.fallbackLayout = 1
    /\ calls.extractSolution = 0

\* The candidates of an entity whose selector is true.
TrueCandidates(selectors) ==
    {p \in DOMAIN selectors : Value(selectors[p]) = True}

\* C9 (decoded output): after extractSolution, every organization and every
\* circle label with a non-empty candidate list has the coordinates of the
\* one candidate whose selector is true in the assignment.
C9_Decoded ==
    calls.extractSolution = 1 =>
        /\ \A i \in DOMAIN orgCandidates :
              Len(orgCandidates[i]) >= 1 =>
                  /\ Cardinality(TrueCandidates(encoding.orgVars[i])) = 1
                  /\ \A p \in TrueCandidates(encoding.orgVars[i]) :
                        /\ layout.organizations[i].x = Num(orgCandidates[i][p].x)
                        /\ layout.organizations[i].y = Num(orgCandidates[i][p].y)
        /\ \A i \in DOMAIN labelCandidates :
              Len(labelCandidates[i]) >= 1 =>
                  /\ Cardinality(TrueCandidates(encoding.labelVars[i])) = 1
                  /\ \A p \in TrueCandidates(encoding.labelVars[i]) :
                        /\ layout.circles[i].labelX = Num(labelCandidates[i][p].x)
                        /\ layout.circles[i].labelY = Num(labelCandidates[i][p].y)

\* extractSolution ran for two organizations, and gave the second of them
\* its second candidate.
C9_Witness ==
    /\ calls.extractSolution = 1
    /\ Len(orgCandidates) = 2
    /\ Len(orgCandidates[1]) >= 1
    /\ Len(orgCandidates[2]) = 2
    /\ Value(encoding.orgVars[2][2]) = True
    /\ layout.organizations[2].x = Num(orgCandidates[2][2].x)

\* C10 (fallback completeness), as the claim states it: whenever
\* fallbackLayout has run, every organization has x and y set and every
\* circle has labelX and labelY set.
C10_FallbackPlacesAll ==
    calls.fallbackLayout = 1 =>
        /\ \A i \in DOMAIN layout.organizations :
              /\ layout.organizations[i].x # NoValue
              /\ layout.organizations[i].y # NoValue
        /\ \A i \in DOMAIN layout.circles :
              /\ layout.circles[i].labelX # NoValue
              /\ layout.circles[i].labelY # NoValue

\* C10 (amended): whenever fallbackLayout has run, every organization whose
\* categories name a circle of the layout has x and y set, an organization
\* whose categories name none is left without, and every circle has labelX
\* and labelY set.
C10_FallbackPlacesCategorised ==
    calls.fallbackLayout = 1 =>
        /\ \A i \in DOMAIN layout.organizations :
              IF layout.organizations[i].categories
                    \cap CircleNames(layout.circles) # {}
              THEN /\ layout.organizations[i].x # NoValue
                   /\ layout.organizations[i].y # NoValue
              ELSE /\ layout.organizations[i].x = NoValue
                   /\ layout.organizations[i].y = NoValue
        /\ \A i \in DOMAIN layout.circles :
              /\ layout.circles[i].labelX # NoValue
              /\ layout.circles[i].labelY # NoValue

\* fallbackLayout ran on data with an organization in no circle and an
\* organization in exactly one.
C10_Witness ==
    /\ calls.fallbackLayout = 1
    /\ \E i \in DOMAIN layout.organizations :
          layout.organizations[i].categories = {}
    /\ \E i \in DOMAIN layout.organizations :
          /\ Cardinality(layout.organizations[i].categories) = 1
          /\ layout.organizations[i].x # NoValue

\* ------------------------------------------------------------------------
\* Properties of the search, step by step
\* ------------------------------------------------------------------------

\* C11 (no leaked search state): whenever an invocation of dpll has just
\* returned null, the shared array is exactly as it was when that invocation
\* was entered, and the variable the invocation branched on, if it branched,
\* is unassigned again.
C11_NoLeak ==
    (mode \in {"return", "done"} /\ ret.isNull) =>
        /\ assignmentArray = popped.entry
        /\ popped.nextVar # -1 =>
              assignmentArray[popped.nextVar] = Undefined

\* An invocation nested in another one has tried both values of its
\* variable, further invocations having run under each, and has just
\* returned null to its caller.
C11_Witness ==
    /\ mode = "return"
    /\ ret.isNull
    /\ stack # <<>>
    /\ popped.at = "false"
    /\ popped.nextVar < numVars

\* The array holding the values of assignment for the variables below v,
\* true for v, and nothing above v.
TrueBranch(assignment, v) ==
    [i \in DOMAIN assignment |->
        IF i \in 1..(v - 1) THEN assignment[i]
        ELSE IF i = v THEN True
        ELSE Undefined]

\* The variables assigned in the array are exactly 1..k.
IsPrefix(assignment, k) ==
    \A i \in 1..numVars : assignment[i] # Undefined <=> i <= k

\* C12 (branching order): at every point of the search (i) the assigned
\* variables are exactly a prefix 1..k of the variable ids, (ii) every
\* invocation that has branched did so on the lowest-indexed variable
\* unassigned on its entry, which holds true during its first recursive call
\* and false during its second, and (iii) a variable v holds false only once
\* an invocation entered with v = true, under the same values of 1..v-1, has
\* returned null.
C12_BranchingOrder ==
    mode # "idle" =>
        /\ \E k \in 0..numVars : IsPrefix(assignmentArray, k)
        /\ \A j \in DOMAIN stack :
              stack[j].at # "check" =>
                 /\ stack[j].nextVar = chooseVar(stack[j].entry, numVars, 1)
                 /\ stack[j].nextVar \in 1..numVars
                 /\ assignmentArray[stack[j].nextVar] =
                       (IF stack[j].at = "true" THEN True ELSE False)
        /\ \A v \in 1..numVars :
              assignmentArray[v] = False =>
                 TrueBranch(assignmentArray, v) \in failed

\* The search is in the second branch of a variable other than the first,
\* a further invocation running under it.
C12_Witness ==
    /\ mode = "call"
    /\ \E j \in DOMAIN stack :
          /\ stack[j].at = "false"
          /\ stack[j].nextVar > 1
          /\ j < Len(stack)
    /\ \E v \in 1..numVars : assignmentArray[v] = True

\* The number of variables assigned in the array.
assignedCount(assignment) ==
    Cardinality({i \in 1..numVars : assignment[i] # Undefined})

\* The recursion is at most numVars + 1 invocations deep, the invocation at
\* depth j having been entered with j - 1 variables assigned: one more than
\* its caller.
DepthBound ==
    /\ Len(stack) <= numVars + 1
    /\ \A j \in DOMAIN stack : assignedCount(stack[j].entry) = j - 1

\* C13 (termination): the recursion never nests deeper than numVars + 1 dpll
\* invocations, each nested invocation having one more assigned variable
\* than its caller, and every solve() call eventually returns.
C13_Termination ==
    /\ []DepthBound
    /\ (mode = "call") ~> (mode = "done")

\* solve() has returned an assignment of all of at least two variables, so
\* from an invocation numVars + 1 deep, after at least one invocation had
\* failed.
C13_Witness ==
    /\ mode = "done"
    /\ numVars >= 2
    /\ ~results[1].isNull
    /\ results[1].assignment[numVars] # Undefined
    /\ failed # {}

=============================================================================
